---- MODULE Spec2Model ----
(***************************************************************************)
(* Slab-backed node containers (include/slab_containers.h).                *)
(*                                                                         *)
(* The module models mempool::slab_allocator: an inline ("stack") slab of  *)
(* stackSize slots embedded in the allocator, heap slabs obtained from the *)
(* mempool, a per-slab intrusive free list of slots threaded through       *)
(* slot_t::storage[0], and a sentinel-headed doubly-linked list of the     *)
(* slabs that have free slots.  On top of it, slab_list (std::list over    *)
(* the allocator) with its re-implemented splice and swap.                 *)
(*                                                                         *)
(* Pointers are modelled as integers: a slab is named by an id, a slot by  *)
(* the pair <<slab id, index in slot[]>>.                                  *)
(***************************************************************************)
EXTENDS Integers, Sequences, FiniteSets, TLC

\* ------------------------------------------------------------------ bounds
StackSize    == 1   \* template parameter stackSize
HeapSize     == 2   \* template parameter heapSize
MaxHeapSlabs == 2   \* heap slabs that may exist at once in one allocator
MaxReserve   == 3   \* largest argument given to reserve()
MaxHeld      == 4   \* slots a user of the allocator holds at once
MaxNodes     == 2   \* elements the two lists hold together
MaxVal       == 2   \* list elements are 1..MaxVal
MaxListReserve == 2 \* largest argument given to a list's reserve()
MaxCnt       == 2   \* largest count given to allocate()
VecStackCount == 2  \* template parameter stackCount of slab_vector
MaxVecLen    == 3   \* largest size a vector is grown to
MaxBlocks    == 4   \* mempool blocks the vector allocators hold at once
MaxNodeSize  == 300 \* largest sizeof given to _defaultHS
MaxExtra     == 3   \* largest number of extra pointers given to _defaultHS

\* ---------------------------------------------------------------- pointers
NULL  == -1         \* nullptr
HEAD  == -2         \* &freeSlabHeads, the sentinel of the free-slab list
STACK == 0          \* &stackSlab, the inline slab

Max2(a, b) == IF a >= b THEN a ELSE b
SlotsPerSlab == Max2(StackSize, Max2(HeapSize, MaxReserve))

HeapIds  == 1..MaxHeapSlabs
SlabIds  == {STACK} \cup HeapIds
SlotIds  == SlabIds \X (0..(SlotsPerSlab - 1))
NullSlot == <<NULL, NULL>>      \* a null slot_t*
Object   == <<NULL, 0>>         \* storage[] holds a constructed object
ListPtrs == SlabIds \cup {HEAD}

\* ------------------------------------------------------- allocator memory
\* Memory of a slab that does not exist (never allocated, or given back to
\* the mempool): no program reads it before initSlab rewrites it.
BlankAllocator ==
  [ slabs          |-> {},
    slabSize       |-> [s \in SlabIds |-> 0],
    freeSlots      |-> [s \in SlabIds |-> 0],
    freeHead       |-> [s \in SlabIds |-> NullSlot],
    next           |-> [p \in ListPtrs |-> NULL],
    prev           |-> [p \in ListPtrs |-> NULL],
    back           |-> [t \in SlotIds |-> NULL],
    storage0       |-> [t \in SlotIds |-> NullSlot],
    freeSlotCount  |-> 0,
    allocSlotCount |-> 0,
    failed         |-> FALSE,
    exhausted      |-> FALSE,
    calls          |-> << >>,
    inuse          |-> 0,
    oom            |-> FALSE,
    thrown         |-> FALSE ]

\* A failed assert() or a dereference of nullptr: the process aborts.
Fail(A) == [A EXCEPT !.failed = TRUE]

\* The operation asked the mempool for more heap slabs than MaxHeapSlabs:
\* the actions do not take such a step.
Exhaust(A) == [A EXCEPT !.exhausted = TRUE]

\* The mempool has no memory for a heap slab: slab_new fails and the failure
\* goes up to the caller of the operation.
Throw(A) == [A EXCEPT !.thrown = TRUE]

\* The pool's inuse_items, the part of it that comes from this allocator:
\* the slots of a new slab count as in use until slab_item_free is called
\* for them, slab_item_allocate takes one into use again, and slab_delete
\* takes away slots that are not in use.
Account(A, c) ==
  [A EXCEPT !.inuse = @ + (CASE c.op = "slab_new"           -> c.slots
                             [] c.op = "slab_item_free"     -> -1
                             [] c.op = "slab_item_allocate" -> 1
                             [] OTHER                       -> 0)]

\* A call to the mempool base class.  The requests for and releases of slabs
\* are appended to the calls of this operation; the per-item notifications
\* are accounting of the pool and change nothing in the allocator.
Notify(A, c) ==
  IF c.op \in {"slab_new", "slab_delete"}
  THEN [Account(A, c) EXCEPT !.calls = Append(@, c)]
  ELSE Account(A, c)

\* The slabs on the free-slab list, walking next from the sentinel.
RECURSIVE Walk(_, _, _)
Walk(A, p, fuel) ==
  IF p = HEAD \/ p = NULL \/ fuel = 0 THEN << >>
  ELSE <<p>> \o Walk(A, A.next[p], fuel - 1)

FreeSlabList(A) == Walk(A, A.next[HEAD], Cardinality(SlabIds) + 1)

\* The slots on a slab's free list, walking storage[0] from freeHead.
RECURSIVE Chain(_, _, _)
Chain(A, t, fuel) ==
  IF t \notin SlotIds \/ fuel = 0 THEN << >>
  ELSE <<t>> \o Chain(A, A.storage0[t], fuel - 1)

FreeChain(A, slab) == Chain(A, A.freeHead[slab], SlotsPerSlab + 1)

Range(q) == {q[i] : i \in 1..Len(q)}

\* ------------------------------------------------- slab_allocator, private
\* The value of a local variable: v is computed once and F applied to it.
With(v, F(_)) == CHOOSE r \in {F(x) : x \in {v}} : TRUE

\* The calls made to the mempool base class pool_slab_allocator.
SlabNew(slab, n)    == [op |-> "slab_new",           slab |-> slab, slots |-> n, size |-> n]
SlabDelete(slab, n, sz) == [op |-> "slab_delete",    slab |-> slab, slots |-> n, size |-> sz]
ItemFree            == [op |-> "slab_item_free",     slab |-> NULL, slots |-> 1, size |-> 0]
\* Mutant of ItemAllocate: the handout of a slot is not announced.
ItemAllocate_Unannounced == [op |-> "none", slab |-> NULL, slots |-> 1, size |-> 0]
ItemAllocate        == [op |-> "slab_item_allocate", slab |-> NULL, slots |-> 1, size |-> 0]

\* Mutant of PushFreeSlot: the slot is made the head of the free list without
\* being chained to the previous head.
PushFreeSlot_NoChain(A, s) ==
  LET slab == A.back[s] IN
  IF slab \notin SlabIds THEN Fail(A)
  ELSE Notify([A EXCEPT !.storage0[s]     = NullSlot,
                        !.freeHead[slab]  = s,
                        !.freeSlots[slab] = @ + 1,
                        !.freeSlotCount   = @ + 1],
              ItemFree)

\* freeslot, first part: put the slot onto the free list of the slab its
\* back-pointer names, and count it.
PushFreeSlot(A, s) ==
  LET slab == A.back[s] IN
  IF slab \notin SlabIds THEN Fail(A)
  ELSE Notify([A EXCEPT !.storage0[s]     = A.freeHead[slab],
                        !.freeHead[slab]  = s,
                        !.freeSlots[slab] = @ + 1,
                        !.freeSlotCount   = @ + 1],
              ItemFree)

\* Mutant of BecameFree: the test is made as if before the increment.
BecameFree_BeforeIncrement(A, slab) == A.freeSlots[slab] = 0

\* freeslot: the slab goes onto the free-slab list with its first free slot.
BecameFree(A, slab) == A.freeSlots[slab] = 1

\* freeslot: put the slab at the head of the allocator's free-slab list.
LinkSlab(A, slab) ==
  LET first == A.next[HEAD] IN
  IF first = NULL THEN Fail(A)
  ELSE [A EXCEPT !.next = [@ EXCEPT ![slab] = first, ![HEAD] = slab],
                 !.prev = [@ EXCEPT ![first] = slab, ![slab] = HEAD]]

\* Mutant of SlabEntirelyFree: the comparison with slabSize is left out.
SlabEntirelyFree_AnyFree(A, slab, freeEmpty) == freeEmpty /\ slab # STACK

\* Mutant of SlabEntirelyFree: no slab is ever given back.
SlabEntirelyFree_Never(A, slab, freeEmpty) == FALSE

\* freeslot: the condition under which the slab is given back to the mempool.
SlabEntirelyFree(A, slab, freeEmpty) ==
  freeEmpty /\ A.freeSlots[slab] = A.slabSize[slab] /\ slab # STACK

\* The memory of a slab given back: nothing reads it again.
Forget(A, slab) ==
  [A EXCEPT !.slabs     = @ \ {slab},
            !.slabSize[slab]  = 0,
            !.freeSlots[slab] = 0,
            !.freeHead[slab]  = NullSlot,
            !.next[slab]      = NULL,
            !.prev[slab]      = NULL,
            !.back     = [t \in SlotIds |-> IF t[1] = slab THEN NULL ELSE @[t]],
            !.storage0 = [t \in SlotIds |-> IF t[1] = slab THEN NullSlot ELSE @[t]]]

\* Mutant of ReleaseSlab: the slab's slots stay in the count of free slots.
ReleaseSlab_KeepCount(A, slab) ==
  LET n == A.next[slab]
      p == A.prev[slab]
  IN IF n = NULL \/ p = NULL THEN Fail(A)
     ELSE Forget(Notify([A EXCEPT !.prev[n] = p, !.next[p] = n],
                        SlabDelete(slab, A.freeSlots[slab], A.slabSize[slab])),
                 slab)

\* freeslot: unlink the entirely free slab, take its slots out of the count
\* of free slots and give it back to the mempool.
ReleaseSlab(A, slab) ==
  LET n == A.next[slab]
      p == A.prev[slab]
  IN IF n = NULL \/ p = NULL THEN Fail(A)
     ELSE IF ~(A.freeSlotCount >= A.slabSize[slab])
          THEN Fail([A EXCEPT !.prev[n] = p, !.next[p] = n])
          ELSE Forget(Notify([A EXCEPT !.prev[n] = p, !.next[p] = n,
                                       !.freeSlotCount = @ - A.slabSize[slab]],
                             SlabDelete(slab, A.freeSlots[slab], A.slabSize[slab])),
                      slab)

freeslot(A0, s, freeEmpty) ==
  With(A0, LAMBDA A :
    With(PushFreeSlot(A, s), LAMBDA B :
      With(IF ~B.failed /\ BecameFree(B, A.back[s]) THEN LinkSlab(B, A.back[s]) ELSE B,
           LAMBDA C :
             IF ~C.failed /\ SlabEntirelyFree(C, A.back[s], freeEmpty)
             THEN ReleaseSlab(C, A.back[s])
             ELSE C)))

\* initSlab, loop body: stamp the back-pointer of slot i and free the slot.
InitSlot(A, slab, i) ==
  freeslot([A EXCEPT !.back[<<slab, i>>] = slab], <<slab, i>>, FALSE)

RECURSIVE InitSlots(_, _, _, _)
InitSlots(A, slab, i, sz) ==
  IF i >= sz THEN A ELSE InitSlots(InitSlot(A, slab, i), slab, i + 1, sz)

initSlab(A, slab, sz) ==
  InitSlots([A EXCEPT !.slabs = @ \cup {slab},
                      !.slabSize[slab]  = sz,
                      !.freeSlots[slab] = 0,
                      !.freeHead[slab]  = NullSlot,
                      !.next[slab]      = NULL,
                      !.prev[slab]      = NULL],
            slab, 0, sz)

\* The block slab_new returns: one that is not in use.
CanAddSlab(A) == HeapIds \ A.slabs # {}
NewSlab(A) == CHOOSE h \in HeapIds \ A.slabs : \A g \in HeapIds \ A.slabs : h <= g

\* Mutant of addSlab: the slots are counted before the mempool is asked.
addSlab_CountFirst(A0, slabSize) ==
  With([A0 EXCEPT !.freeSlotCount = @ + slabSize], LAMBDA A :
    IF A.oom THEN Throw(A)
    ELSE IF ~CanAddSlab(A) THEN Exhaust(A)
    ELSE initSlab(Notify(A0, SlabNew(NewSlab(A0), slabSize)), NewSlab(A0), slabSize))

addSlab(A0, slabSize) ==
  With(A0, LAMBDA A :
    IF A.oom THEN Throw(A)
    ELSE IF ~CanAddSlab(A) \/ slabSize > SlotsPerSlab THEN Exhaust(A)
    ELSE initSlab(Notify(A, SlabNew(NewSlab(A), slabSize)), NewSlab(A), slabSize))

\* Mutant of NoFreeSlab: a slab is asked for whenever the inline slab is full.
NoFreeSlab_StackFull(A) == A.freeSlots[STACK] = 0

\* allocslot: the free-slab list is empty.
NoFreeSlab(A) == A.next[HEAD] = HEAD

\* Mutant of PopSlab: the slab with no free slot left stays on the list.
PopSlab_Keep(A, freeSlab) == A

\* allocslot: take the slab with no free slot left off the head of the list.
PopSlab(A, freeSlab) ==
  LET n == A.next[freeSlab] IN
  IF A.freeHead[freeSlab] # NullSlot \/ n = NULL THEN Fail(A)
  ELSE [A EXCEPT !.next = [@ EXCEPT ![HEAD] = n, ![freeSlab] = NULL],
                 !.prev = [@ EXCEPT ![n] = HEAD, ![freeSlab] = NULL]]

\* allocslot, after the slab was added if one was needed: pop the head of
\* the first slab's free list.
\* allocslot: the slot that follows freeSlot on its slab's free list.
NextFree(A, freeSlot) == A.storage0[freeSlot]

TakeSlot(A) ==
  LET freeSlab == A.next[HEAD]
      freeSlot == IF freeSlab \in SlabIds THEN A.freeHead[freeSlab] ELSE NullSlot
  IN IF A.exhausted \/ A.thrown THEN [alloc |-> A, slot |-> NullSlot]
     ELSE IF A.failed \/ freeSlot \notin SlotIds \/ ~(A.freeSlots[freeSlab] > 0)
     THEN [alloc |-> Fail(A), slot |-> NullSlot]
     ELSE With([A EXCEPT !.freeHead[freeSlab]  = NextFree(A, freeSlot),
                         !.freeSlots[freeSlab] = @ - 1],
               LAMBDA B :
                 With(IF B.freeSlots[freeSlab] = 0 THEN PopSlab(B, freeSlab) ELSE B,
                      LAMBDA C :
                        [alloc |-> Notify([C EXCEPT !.freeSlotCount = @ - 1], ItemAllocate),
                         slot  |-> freeSlot]))

\* allocslot: the allocator afterwards, and the slot handed out.
allocslot(A0) ==
  With(A0, LAMBDA A :
    With(IF NoFreeSlab(A) THEN addSlab(A, HeapSize) ELSE A, LAMBDA B : TakeSlot(B)))

\* Mutant of NeedsSlab: a slab is added also when exactly freeCount are free.
NeedsSlab_OrEqual(A, freeCount) == A.freeSlotCount <= freeCount

\* Mutant of ReserveSize: the slots already free are not taken off.
ReserveSize_Whole(A, freeCount) == freeCount

\* _reserve: whether a slab is added, and of how many slots.
NeedsSlab(A, freeCount) == A.freeSlotCount < freeCount
ReserveSize(A, freeCount) == freeCount - A.freeSlotCount

_reserve(A0, freeCount) ==
  With(A0, LAMBDA A :
    IF NeedsSlab(A, freeCount) THEN addSlab(A, ReserveSize(A, freeCount)) ELSE A)

\* -------------------------------------------------- slab_allocator, public
\* slab_allocator(): the sentinel points to itself, the inline slab is
\* announced to the mempool and all its slots are put on its free list.
Construct ==
  LET A == [BlankAllocator EXCEPT !.freeSlotCount  = 0,
                                  !.allocSlotCount = StackSize,
                                  !.next[HEAD]     = HEAD,
                                  !.prev[HEAD]     = HEAD]
  IN [initSlab(Notify(A, SlabNew(NULL, StackSize)), STACK, StackSize)
        EXCEPT !.calls = << >>]

\* ~slab_allocator(): the three assertions.
DtorAsserts(A) ==
  /\ A.freeSlotCount = A.allocSlotCount
  /\ A.freeSlotCount = StackSize
  /\ A.next[HEAD] = STACK

Destruct(A0) ==
  With(Notify(A0, SlabDelete(NULL, StackSize, StackSize)), LAMBDA B :
    IF DtorAsserts(B) THEN B ELSE Fail(B))

\* allocate(1): the pointer returned lies one pointer past the slot's start;
\* the model names the object by its slot.
\* The caller then constructs its node in the slot, over storage[0].
allocate(A) ==
  With(allocslot(A), LAMBDA r :
    IF r.slot \notin SlotIds THEN r
    ELSE [r EXCEPT !.alloc.storage0[r.slot] = Object])

\* Mutant of allocateCnt: the count is not looked at.
allocateCnt_Unchecked(A, cnt) == allocate(A)

\* allocate(cnt): assert(cnt == 1) comes before anything else.
allocateCnt(A, cnt) ==
  IF cnt # 1 THEN [alloc |-> Fail(A), slot |-> NullSlot] ELSE allocate(A)

deallocate(A, p) == freeslot(A, p, TRUE)

reserve(A, freeCount) == _reserve(A, freeCount)

\* The record of mempool calls starts anew with each operation, and no
\* failure is on its way up.
Begin(A) == [A EXCEPT !.calls = << >>, !.thrown = FALSE]

\* The operation runs while the mempool has no memory left.
BeginOom(A) == [Begin(A) EXCEPT !.oom = TRUE]
EndOom(A) == [A EXCEPT !.oom = FALSE]

\* ------------------------------------------------------------ _defaultHS
_desired_slab_size == 256
SizeofVoidPtr == 8

\* Size of a node.
_nodeSize(nodeSize, extra) == nodeSize + (extra * SizeofVoidPtr)

\* Mutant of _slabSize: the extra pointers of a node are left out.
_slabSize_NoExtra(nodeSize, extra) == _desired_slab_size \div nodeSize

\* Number of nodes in a desired slab size.
_slabSize(nodeSize, extra) == _desired_slab_size \div _nodeSize(nodeSize, extra)

\* Actual slab size.
_defaultHS(nodeSize, extra) ==
  IF _slabSize(nodeSize, extra) # 0 THEN _slabSize(nodeSize, extra) ELSE 1

\* ------------------------------------------------- slab_vector_allocator
\* Pointers to element arrays: the stackSlot array inside allocator x, a
\* block of the mempool, or nullptr.
Inline(x) == <<"inline", x>>
Heap(b)   == <<"heap", b>>
NullBuf   == <<"null", 0>>
VecIds    == {1, 2}
BlockIds  == 1..MaxBlocks

\* The calls slab_vector_allocator makes to the mempool base class.
VSlabNew(p, n, heap) == [op |-> "slab_new",    p |-> p, slots |-> n, heap |-> heap]
VSlabDelete(p, n)    == [op |-> "slab_delete", p |-> p, slots |-> n, heap |-> TRUE]

\* The block slab_new(heap = true) returns: one that is not in use.
FreeBlocks(V) == {b \in BlockIds : V.blocks[b] = 0}
NewBlock(V) == CHOOSE b \in FreeBlocks(V) : \A g \in FreeBlocks(V) : b <= g

\* Mutant of FitsInline: the inline array is given out for one element more.
FitsInline_OneMore(cnt) == cnt <= VecStackCount + 1

\* allocate: the request is served by the inline array.
FitsInline(cnt) == cnt <= VecStackCount

\* slab_vector_allocator::allocate(cnt) on allocator x: the memory after the
\* call and the pointer returned.  asked[x] remembers that x has made a
\* heap request.
vallocate(V, x, cnt) ==
  IF FitsInline(cnt) THEN [vec |-> V, p |-> Inline(x)]
  ELSE [vec |-> [V EXCEPT !.blocks[NewBlock(V)] = cnt,
                          !.calls = Append(@, VSlabNew(Heap(NewBlock(V)), cnt, TRUE)),
                          !.asked[x] = TRUE],
        p   |-> Heap(NewBlock(V))]

\* deallocate: p is the allocator's own inline array.
IsStackSlot(x, p) == p = Inline(x)

\* slab_vector_allocator::deallocate(p, s) on allocator x.  slab_delete of
\* memory that is no block of the mempool is recorded in wild.
vdeallocate(V, x, p, s) ==
  IF ~IsStackSlot(x, p)
  THEN [V EXCEPT !.calls  = Append(@, VSlabDelete(p, s)),
                 !.blocks = IF p[1] = "heap" THEN [@ EXCEPT ![p[2]] = 0] ELSE @,
                 !.wild   = @ \/ p[1] # "heap"]
  ELSE V

\* ------------------------------------------------------------ slab_vector
\* std::vector, reallocation to capacity n: a new array from the allocator,
\* the elements moved over, the old array (if any) given back.
Reallocate(V0, x, n) ==
  With(vallocate(V0, x, n), LAMBDA r :
    With(IF V0.v[x].buf # NullBuf
         THEN vdeallocate(r.vec, x, V0.v[x].buf, V0.v[x].cap)
         ELSE r.vec,
         LAMBDA W : [W EXCEPT !.v[x].buf = r.p, !.v[x].cap = n]))

\* std::vector::reserve(n).
vreserve(V, x, n) == IF n > V.v[x].cap THEN Reallocate(V, x, n) ELSE V

\* std::vector::push_back(e): a full vector grows to size + max(size, 1).
\* plain[x] ends when the size of x exceeds stackCount.
GrownCap(sz) == sz + Max2(sz, 1)
vpush_back(V0, x, e) ==
  With(IF Len(V0.v[x].elems) = V0.v[x].cap
       THEN Reallocate(V0, x, GrownCap(Len(V0.v[x].elems)))
       ELSE V0,
       LAMBDA W : [W EXCEPT !.v[x].elems = Append(@, e),
                            !.plain[x] = @ /\ Len(V0.v[x].elems) < VecStackCount])

\* std::vector::clear(): the elements go, the array stays.
vclear(V, x) == [V EXCEPT !.v[x].elems = << >>]

\* std::vector::swap between vectors whose allocators are not exchanged:
\* the arrays, sizes and capacities change hands.
StdVectorSwap(V, x, y) == [V EXCEPT !.v[x] = V.v[y], !.v[y] = V.v[x]]

\* Mutant of ForceOff: a vector with elements is left where it is.
ForceOff_NonEmptyStays(V, x) ==
  IF V.v[x].elems = << >> THEN vreserve(V, x, VecStackCount + 1) ELSE V

\* slab_vector::swap: reserve(stackCount + 1), to force the vector off its
\* inline array.
ForceOff(V, x) == vreserve(V, x, VecStackCount + 1)

\* slab_vector::swap(rhs), x being *this: the two reserve calls.  Both
\* vectors stop being plain.
ForceBoth(V0, x, y) ==
  [ForceOff(ForceOff(V0, x), y) EXCEPT !.plain = [z \in VecIds |-> FALSE]]

\* slab_vector::swap(rhs), x being *this.
vswap(V0, x, y) == StdVectorSwap(ForceBoth(V0, x, y), x, y)

\* Mutant of VecConstruct: the constructor reserves nothing.
VecConstruct_Bare(V, x) ==
  [V EXCEPT !.calls = Append(@, VSlabNew(Inline(x), VecStackCount, FALSE))]

\* slab_vector(): the allocator announces its inline array to the mempool,
\* then reserve(stackCount).
VecConstruct(V, x) ==
  vreserve([V EXCEPT !.calls = Append(@, VSlabNew(Inline(x), VecStackCount, FALSE))],
           x, VecStackCount)

\* No vector constructed, no block in use.
BlankVectors ==
  [ v      |-> [x \in VecIds |-> [buf |-> NullBuf, cap |-> 0, elems |-> << >>]],
    blocks |-> [b \in BlockIds |-> 0],
    calls  |-> << >>,
    wild   |-> FALSE,
    asked  |-> [x \in VecIds |-> FALSE],
    plain  |-> [x \in VecIds |-> TRUE] ]

\* Two default-constructed vectors.
TwoVectors == VecConstruct(VecConstruct(BlankVectors, 1), 2)

\* The record of mempool calls starts anew with each operation.
VBegin(V) == [V EXCEPT !.calls = << >>]

\* ------------------------------------------------------------------ state
VARIABLES
  al,       \* al[x]: the slab_allocator inside container x
  held,     \* the slots a direct user of allocator 1 holds (allocated, not yet
            \* deallocated); for a direct user of the vector allocators, the arrays
  state,    \* "alive", "destroyed" (destructor ran through), "aborted",
            \* "corrupted" (a free slot was freed again and the program went on),
            \* or "swapping" (inside x.swap(x))
  lastOp,   \* the operation that led to this state and what it was given
  lists,    \* lists[x]: the nodes of slab_list x, first to last
  cross,    \* a node was given back to an allocator other than the one it came from
  ref,      \* ref[x]: the values std::list operations would have left in list x,
            \* had the last operation been made on std::lists holding what the lists held
  peak,     \* the highest inuse_items of the pool between the steps of the last list operation
  vec,      \* the two slab_vectors, their allocators' blocks and mempool calls
  promise   \* n of a reserve(n) made with no slot held, while no more than n have been held since; else 0

vars == <<al, held, state, lastOp, lists, cross, ref, peak, vec, promise>>

AllocIds == {1, 2}
NoOp == [op |-> "none", n |-> 0, args |-> << >>]

Init ==
  /\ al = [x \in AllocIds |-> Construct]
  /\ held = {}
  /\ state = "alive"
  /\ lastOp = NoOp
  /\ lists = [x \in AllocIds |-> << >>]
  /\ cross = FALSE
  /\ promise = 0
  /\ peak = 0
  /\ ref = [x \in AllocIds |-> << >>]
  /\ vec = TwoVectors

HeapSlabs(A) == A.slabs \ {STACK}
Op(name, n) == [op |-> name, n |-> n, args |-> << >>]
OpArgs(name, a) == [op |-> name, n |-> 0, args |-> a]

Finish(A) == IF A.failed THEN "aborted" ELSE "alive"

\* A user of the allocator asks for one node.
Allocate ==
  /\ state = "alive"
  /\ Cardinality(held) < MaxHeld
  /\ \E r \in {allocate(Begin(al[1]))} :
       /\ ~r.alloc.exhausted
       /\ al' = [al EXCEPT ![1] = r.alloc]
       /\ held' = IF r.alloc.failed THEN held ELSE held \cup {r.slot}
       /\ state' = Finish(r.alloc)
       /\ lastOp' = Op("allocate", 0)
       /\ promise' = IF Cardinality(held') > promise THEN 0 ELSE promise
  /\ UNCHANGED <<lists, cross, ref, peak, vec>>

\* A user gives back a node it holds.
Deallocate ==
  /\ state = "alive"
  /\ \E p \in held : \E B \in {deallocate(Begin(al[1]), p)} :
         /\ al' = [al EXCEPT ![1] = B]
         /\ held' = held \ {p}
         /\ state' = Finish(B)
         /\ lastOp' = Op("deallocate", 0)
  /\ UNCHANGED <<lists, cross, ref, peak, vec, promise>>

Reserve ==
  /\ state = "alive"
  /\ \E n \in 0..MaxReserve :
       /\ \E B \in {reserve(Begin(al[1]), n)} :
            /\ ~B.exhausted
            /\ al' = [al EXCEPT ![1] = B]
            /\ state' = Finish(B)
            /\ lastOp' = Op("reserve", n)
       /\ promise' = IF held = {} THEN n ELSE 0
       /\ UNCHANGED <<held, lists, cross, ref, peak, vec>>

\* The allocator is destroyed, whatever its user still holds.
Destroy ==
  /\ state = "alive"
  /\ \E B \in {Destruct(Begin(al[1]))} :
       /\ al' = [al EXCEPT ![1] = B]
       /\ state' = IF B.failed THEN "aborted" ELSE "destroyed"
       /\ lastOp' = Op("destroy", 0)
  /\ UNCHANGED <<held, lists, cross, ref, peak, vec, promise>>

Next == Allocate \/ Deallocate \/ Reserve \/ Destroy

Spec == Init /\ [][Next]_vars

\* ------------------------------------------------- reserve never called
NextPlain == Allocate \/ Deallocate \/ Destroy

SpecPlain == Init /\ [][NextPlain]_vars

\* ------------------------------------------------------------ round trip
\* A user asks for a node and gives it back at once.
RoundTrip ==
  /\ state = "alive"
  /\ \E r \in {allocate(Begin(al[1]))} :
       /\ ~r.alloc.exhausted /\ ~r.alloc.failed
       /\ \E B \in {deallocate(Begin(r.alloc), r.slot)} :
            /\ al' = [al EXCEPT ![1] = B]
            /\ state' = Finish(B)
            /\ lastOp' = Op("round_trip", 0)
  /\ UNCHANGED <<held, lists, cross, ref, peak, vec, promise>>

NextTrip == Next \/ RoundTrip

SpecTrip == Init /\ [][NextTrip]_vars

\* ------------------------------------------------ mempool out of memory
AllocateOom ==
  /\ state = "alive"
  /\ Cardinality(held) < MaxHeld
  /\ \E r \in {allocate(BeginOom(al[1]))} :
       /\ al' = [al EXCEPT ![1] = EndOom(r.alloc)]
       /\ held' = IF r.slot \in SlotIds THEN held \cup {r.slot} ELSE held
       /\ state' = Finish(r.alloc)
       /\ lastOp' = Op("allocate_oom", 0)
       /\ promise' = IF Cardinality(held') > promise THEN 0 ELSE promise
  /\ UNCHANGED <<lists, cross, ref, peak, vec>>

ReserveOom ==
  /\ state = "alive"
  /\ \E n \in 0..MaxReserve : \E B \in {reserve(BeginOom(al[1]), n)} :
       /\ al' = [al EXCEPT ![1] = EndOom(B)]
       /\ state' = Finish(B)
       /\ lastOp' = Op("reserve_oom", n)
       /\ promise' = 0
  /\ UNCHANGED <<held, lists, cross, ref, peak, vec>>

NextOom == Next \/ AllocateOom \/ ReserveOom

SpecOom == Init /\ [][NextOom]_vars

\* --------------------------------------------- calls outside the contract
\* A user asks for cnt nodes at once.
AllocateCnt ==
  /\ state = "alive"
  /\ Cardinality(held) < MaxHeld
  /\ \E cnt \in 0..MaxCnt : \E r \in {allocateCnt(Begin(al[1]), cnt)} :
       /\ ~r.alloc.exhausted
       /\ al' = [al EXCEPT ![1] = r.alloc]
       /\ held' = IF r.slot \in SlotIds THEN held \cup {r.slot} ELSE held
       /\ state' = Finish(r.alloc)
       /\ lastOp' = Op("allocate_cnt", cnt)
       /\ promise' = IF Cardinality(held') > promise THEN 0 ELSE promise
  /\ UNCHANGED <<lists, cross, ref, peak, vec>>

\* The slots of the allocator's slabs that are on a free list.
FreeSlotsIn(A) == {t \in SlotIds : t[1] \in A.slabs /\ t[2] < A.slabSize[t[1]]} \ held

\* A user gives back a node that it does not hold: the slot is free already.
DeallocateFree ==
  /\ state = "alive"
  /\ \E p \in FreeSlotsIn(al[1]) : \E B \in {deallocate(Begin(al[1]), p)} :
       /\ al' = [al EXCEPT ![1] = B]
       /\ state' = IF B.failed THEN "aborted" ELSE "corrupted"
       /\ lastOp' = Op("deallocate_free", 0)
  /\ UNCHANGED <<held, lists, cross, ref, peak, vec, promise>>

NextMisuse == Next \/ AllocateCnt \/ DeallocateFree

SpecMisuse == Init /\ [][NextMisuse]_vars

\* -------------------------------------------------------------- slab_list
\* Two lists, each over its own allocator: c is lists[1] over al[1], b is
\* lists[2] over al[2].  A node is an element in a slot; owner is the
\* allocator whose allocate() returned the slot.
Values == 1..MaxVal
Node(v, x, slot) == [val |-> v, owner |-> x, slot |-> slot]
InsertAt(q, i, e) == SubSeq(q, 1, i - 1) \o <<e>> \o SubSeq(q, i, Len(q))
RemoveAt(q, i) == SubSeq(q, 1, i - 1) \o SubSeq(q, i + 1, Len(q))
ValuesOf(q) == [i \in 1..Len(q) |-> q[i].val]

\* The pool's inuse_items: both containers are backed by the same pool.
PoolInuse(A) == A[1].inuse + A[2].inuse

\* The containers at the start of an operation.
Cur == [al |-> [x \in AllocIds |-> Begin(al[x])], lists |-> lists, cross |-> cross,
        peak |-> PoolInuse(al)]

\* A step of a list operation is done: the pool's inuse_items is looked at.
Observe(S) == [S EXCEPT !.peak = Max2(@, PoolInuse(S.al))]

\* An allocator aborted, or the operation needs more than MaxHeapSlabs.
Stuck(S) == \E x \in AllocIds : S.al[x].failed \/ S.al[x].exhausted

\* std::list::insert(pos, v): a node from the list's own allocator, linked
\* before position pos (Len + 1 is end()).
ListInsert(S0, x, pos, v) ==
  With(S0, LAMBDA S :
    With(allocate(S.al[x]), LAMBDA r :
      IF r.slot \notin SlotIds THEN [S EXCEPT !.al[x] = r.alloc]
      ELSE Observe([S EXCEPT !.al[x] = r.alloc,
                             !.lists[x] = InsertAt(@, pos, Node(v, x, r.slot))])))

\* std::list::erase(it): the node is unlinked and given to the list's own
\* allocator.  A node that came from the other allocator is recorded in cross.
ListErase(S0, x, i) ==
  With(S0, LAMBDA S :
    IF S.lists[x][i].owner # x
    THEN [S EXCEPT !.cross = TRUE, !.lists[x] = RemoveAt(@, i)]
    ELSE Observe([S EXCEPT !.al[x] = deallocate(@, S.lists[x][i].slot),
                           !.lists[x] = RemoveAt(@, i)]))

\* std::list::clear(): every node, first to last, is given back.
RECURSIVE ListClear(_, _)
ListClear(S0, x) ==
  With(S0, LAMBDA S :
    IF S.lists[x] = << >> \/ Stuck(S) THEN S ELSE ListClear(ListErase(S, x, 1), x))

\* copy(o), the loop: the elements of o, as o is when the loop reaches them,
\* are pushed onto the back of this list; i is the position reached in o.
RECURSIVE CopyLoop(_, _, _, _)
CopyLoop(S0, x, o, i) ==
  With(S0, LAMBDA S :
    IF i > Len(S.lists[o]) \/ Stuck(S) THEN S
    ELSE CopyLoop(ListInsert(S, x, Len(S.lists[x]) + 1, S.lists[o][i].val), x, o, i + 1))

\* Mutant of copy: this list is not cleared first.
copy_NoClear(S, x, o) == CopyLoop(S, x, o, 1)

\* slab_list::copy(o), which is operator=(o) and the copy constructor:
\* clear this list, then push back each element of o.  Nothing compares o
\* with this list.
copy(S, x, o) == CopyLoop(ListClear(S, x), x, o, 1)

\* splice(pos, other, first, last), the loop: k elements are left to move;
\* the element at first is copied into a new node of this list before pos,
\* pos moves behind it, and the element is erased from other.
RECURSIVE SpliceLoop_PosStays(_, _, _, _, _, _)
\* Mutant of SpliceLoop: pos is not moved behind the inserted element.
SpliceLoop_PosStays(S0, c, pos, b, first, k) ==
  With(S0, LAMBDA S :
    IF k = 0 \/ Stuck(S) THEN S
    ELSE SpliceLoop_PosStays(ListErase(ListInsert(S, c, pos, S.lists[b][first].val), b, first),
                             c, pos, b, first, k - 1))

RECURSIVE SpliceLoop(_, _, _, _, _, _)
SpliceLoop(S0, c, pos, b, first, k) ==
  With(S0, LAMBDA S :
    IF k = 0 \/ Stuck(S) THEN S
    ELSE SpliceLoop(ListErase(ListInsert(S, c, pos, S.lists[b][first].val), b, first),
                    c, pos + 1, b, first, k - 1))

\* Mutant of splice: std::list::splice, which relinks the nodes of other
\* into this list.
splice_Relink(S, c, pos, b, first, last) ==
  [S EXCEPT !.lists[c] = SubSeq(@, 1, pos - 1) \o SubSeq(S.lists[b], first, last - 1)
                           \o SubSeq(@, pos, Len(@)),
            !.lists[b] = SubSeq(@, 1, first - 1) \o SubSeq(@, last, Len(@))]

\* slab_list::splice(pos, other, first, last) for other a list distinct from
\* this one; positions are indices, Len + 1 is end().
splice(S, c, pos, b, first, last) == SpliceLoop(S, c, pos, b, first, last - first)

\* Mutant of splice1: the range runs from it to the end of other.
splice1_ToEnd(S, c, pos, b, it) == splice(S, c, pos, b, it, Len(S.lists[b]) + 1)

\* slab_list::splice(pos, other, it): the range is the one element at it,
\* or empty when it is other.end().
splice1(S, c, pos, b, it) ==
  splice(S, c, pos, b, it, IF it = Len(S.lists[b]) + 1 THEN it ELSE it + 1)

\* swap, first loop: the k elements of o, first to last, are pushed onto the
\* back of this list and erased from o.
RECURSIVE SwapTake(_, _, _, _)
SwapTake(S0, x, o, k) ==
  With(S0, LAMBDA S :
    IF k = 0 \/ Stuck(S) THEN S
    ELSE SwapTake(ListErase(ListInsert(S, x, Len(S.lists[x]) + 1, S.lists[o][1].val), o, 1),
                  x, o, k - 1))

\* swap, second loop: from mfirst, the first element this list had, to
\* mlast, its end(): each element is pushed onto the back of o and erased.
\* A list that was empty has mfirst = end() = mlast and the loop does not run.
SwapGive(S0, x, o, wasEmpty) ==
  With(S0, LAMBDA S :
    IF wasEmpty THEN S ELSE SwapTake(S, o, x, Len(S.lists[x])))

\* Mutant of swap: std::list::swap, which exchanges the node chains.
swap_Relink(S, x, o) ==
  [S EXCEPT !.lists[x] = S.lists[o], !.lists[o] = S.lists[x]]

\* slab_list::swap(o) for o a list distinct from this one.
swap(S, x, o) ==
  SwapGive(SwapTake(S, x, o, Len(S.lists[o])), x, o, S.lists[x] = << >>)

TotalNodes == Len(lists[1]) + Len(lists[2])

\* std::list::splice(pos, other, first, last) on sequences of values: what
\* this list and the other list hold afterwards.
SplicedInto(vc, pos, vb, first, last) ==
  SubSeq(vc, 1, pos - 1) \o SubSeq(vb, first, last - 1) \o SubSeq(vc, pos, Len(vc))
SplicedOutOf(vb, first, last) ==
  SubSeq(vb, 1, first - 1) \o SubSeq(vb, last, Len(vb))

\* The other of the two lists.
Other(x) == CHOOSE o \in AllocIds : o # x

\* What std::list::splice leaves in the two lists.
StdSplice(c, pos, first, last) ==
  [x \in AllocIds |->
     IF x = c
     THEN SplicedInto(ValuesOf(lists[c]), pos, ValuesOf(lists[Other(c)]), first, last)
     ELSE SplicedOutOf(ValuesOf(lists[x]), first, last)]

\* What std::list::swap leaves in the two lists.
StdSwap == [x \in AllocIds |-> ValuesOf(lists[Other(x)])]

\* The operation is done: S is what it left, a what it was given, r what a
\* std::list would hold.
CommitRef(S, name, a, r) ==
  /\ ~(\E x \in AllocIds : S.al[x].exhausted)
  /\ al' = S.al
  /\ lists' = S.lists
  /\ cross' = S.cross
  /\ state' = IF \E x \in AllocIds : S.al[x].failed THEN "aborted" ELSE "alive"
  /\ lastOp' = OpArgs(name, a)
  /\ peak' = S.peak
  /\ ref' = r
  /\ UNCHANGED <<held, vec, promise>>

\* An operation inherited from std::list.
Commit(S, name) == CommitRef(S, name, << >>, [x \in AllocIds |-> ValuesOf(S.lists[x])])

LPushBack ==
  /\ state = "alive"
  /\ TotalNodes < MaxNodes
  /\ \E x \in AllocIds, v \in Values :
       \E S \in {ListInsert(Cur, x, Len(lists[x]) + 1, v)} : Commit(S, "push_back")

LErase ==
  /\ state = "alive"
  /\ \E x \in AllocIds : \E i \in 1..Len(lists[x]) :
       \E S \in {ListErase(Cur, x, i)} : Commit(S, "erase")

LClear ==
  /\ state = "alive"
  /\ \E x \in AllocIds :
       \E S \in {ListClear(Cur, x)} : Commit(S, "clear")

LReserve ==
  /\ state = "alive"
  /\ \E x \in AllocIds, n \in 0..MaxListReserve :
       lists[x] = << >> /\ \E S \in {[Cur EXCEPT !.al[x] = reserve(@, n)]} : Commit(S, "reserve")

LSplice ==
  /\ state = "alive"
  /\ \E c \in AllocIds : \E b \in AllocIds \ {c} :
       \E pos \in 1..(Len(lists[c]) + 1) :
         \E first \in 1..(Len(lists[b]) + 1) : \E last \in first..(Len(lists[b]) + 1) :
           \E S \in {splice(Cur, c, pos, b, first, last)} :
             CommitRef(S, "splice", <<last - first>>, StdSplice(c, pos, first, last))

LSplice1 ==
  /\ state = "alive"
  /\ \E c \in AllocIds : \E b \in AllocIds \ {c} :
       \E pos \in 1..(Len(lists[c]) + 1) : \E it \in 1..(Len(lists[b]) + 1) :
         \E S \in {splice1(Cur, c, pos, b, it)} :
           CommitRef(S, "splice1", <<IF it = Len(lists[b]) + 1 THEN 0 ELSE 1>>,
                     StdSplice(c, pos, it, IF it = Len(lists[b]) + 1 THEN it ELSE it + 1))

LSwap ==
  /\ state = "alive"
  /\ \E x \in AllocIds : \E o \in AllocIds \ {x} :
       \E S \in {swap(Cur, x, o)} : CommitRef(S, "swap", <<x>>, StdSwap)

\* x.swap(x) is called: ofirst = mfirst = begin(), olast = mlast = end().
\* lastOp keeps the list, the position of ofirst in it, and whether mfirst
\* is end(); ref keeps what std::list::swap leaves, the lists as they are.
LSelfSwapCall ==
  /\ state = "alive"
  /\ \E x \in AllocIds :
       /\ lastOp' = OpArgs("self_swap", <<x, 1, lists[x] = << >>>>)
       /\ ref' = [y \in AllocIds |-> ValuesOf(lists[y])]
  /\ state' = "swapping"
  /\ al' = Cur.al
  /\ peak' = Cur.peak
  /\ UNCHANGED <<held, lists, cross, vec, promise>>

\* x.swap(x), one iteration of the first loop: ofirst != olast, the element
\* at ofirst is pushed onto the back of the same list and erased, and
\* ofirst is the element behind it.  olast stays end().
LSelfSwapStep ==
  /\ state = "swapping"
  /\ lastOp.args[2] # Len(lists[lastOp.args[1]]) + 1
  /\ \E S \in {SwapTake(Cur, lastOp.args[1], lastOp.args[1], 1)} :
       /\ ~Stuck(S)
       /\ al' = S.al
       /\ lists' = S.lists
       /\ cross' = S.cross
       /\ peak' = S.peak
  /\ UNCHANGED <<held, state, lastOp, ref, vec, promise>>

\* x.swap(x), the first loop is left with ofirst = olast.  The second loop
\* runs from mfirst: with mfirst = mlast = end() it does nothing; otherwise
\* mfirst is the node the first loop erased, and what reading it does is
\* not defined.
LSelfSwapReturn ==
  /\ state = "swapping"
  /\ lastOp.args[2] = Len(lists[lastOp.args[1]]) + 1
  /\ \E outcome \in (IF lastOp.args[3] THEN {"alive"} ELSE {"alive", "aborted"}) :
       state' = outcome
  /\ lastOp' = OpArgs("self_swap_return", <<lastOp.args[1]>>)
  /\ UNCHANGED <<al, held, lists, cross, ref, peak, vec, promise>>

NextSelfSwap ==
  LPushBack \/ LErase \/ LClear \/ LSelfSwapCall \/ LSelfSwapStep \/ LSelfSwapReturn

\* A call that has begun goes on: the loop takes its next iteration and the
\* function returns when the loop is left.
SpecSelfSwap ==
  Init /\ [][NextSelfSwap]_vars /\ WF_vars(LSelfSwapStep) /\ WF_vars(LSelfSwapReturn)

\* x = o for two distinct lists.
LAssign ==
  /\ state = "alive"
  /\ \E x \in AllocIds : \E o \in AllocIds \ {x} :
       \E S \in {copy(Cur, x, o)} :
         CommitRef(S, "assign", <<x, Len(lists[x])>>,
                   [y \in AllocIds |-> ValuesOf(lists[o])])

\* x = x.
LSelfAssign ==
  /\ state = "alive"
  /\ \E x \in AllocIds :
       \E S \in {copy(Cur, x, x)} :
         CommitRef(S, "self_assign", <<x>>, [y \in AllocIds |-> ValuesOf(lists[y])])

NextCopy == LPushBack \/ LErase \/ LClear \/ LAssign \/ LSelfAssign

SpecCopy == Init /\ [][NextCopy]_vars

NextList == LPushBack \/ LErase \/ LClear \/ LReserve \/ LSplice \/ LSplice1 \/ LSwap

SpecList == Init /\ [][NextList]_vars

\* ----------------------------------------------------- default heapSize
\* A container template is named without heapSize: _defaultHS is evaluated
\* with the sizeof of the element and the pointers of the node.
DefaultHS ==
  /\ \E nodeSize \in 1..MaxNodeSize, extra \in 0..MaxExtra :
       lastOp' = OpArgs("_defaultHS", <<nodeSize, extra, _defaultHS(nodeSize, extra)>>)
  /\ UNCHANGED <<al, held, state, lists, cross, ref, peak, vec, promise>>

NextHS == DefaultHS
SpecHS == Init /\ [][NextHS]_vars

\* --------------------------------------------------- vector operations
\* The pointers a caller of deallocate can pass: an inline array or a block
\* in use.
VecPointers == {Inline(x) : x \in VecIds} \cup {Heap(b) : b \in BlockIds \ FreeBlocks(vec)}

\* The blocks the two vectors own.
OwnedBy(V) == {V.v[x].buf : x \in VecIds}

\* Direct use of allocator x: allocate(cnt).
VAllocate ==
  /\ state = "alive"
  /\ FreeBlocks(vec) # {}
  /\ \E x \in VecIds, cnt \in 1..(VecStackCount + 2) :
       \E r \in {vallocate(VBegin(vec), x, cnt)} :
         /\ vec' = r.vec
         /\ held' = held \cup {r.p}
         /\ lastOp' = OpArgs("vallocate", <<x, cnt, r.p>>)
  /\ UNCHANGED <<al, state, lists, cross, ref, peak, promise>>

\* Direct use of allocator x: deallocate(p, s) of an array no vector owns.
VDeallocate ==
  /\ state = "alive"
  /\ \E x \in VecIds : \E p \in VecPointers \ (OwnedBy(vec) \ {Inline(x)}) :
       /\ vec' = vdeallocate(VBegin(vec), x, p,
                             IF p[1] = "heap" THEN vec.blocks[p[2]] ELSE VecStackCount)
       /\ held' = held \ {p}
       /\ lastOp' = OpArgs("vdeallocate", <<x, p>>)
  /\ UNCHANGED <<al, state, lists, cross, ref, peak, promise>>

NextVecAlloc == VAllocate \/ VDeallocate
SpecVecAlloc == Init /\ [][NextVecAlloc]_vars

\* x.push_back(e).
VPushBack ==
  /\ state = "alive"
  /\ \E x \in VecIds, e \in Values :
       /\ Len(vec.v[x].elems) < MaxVecLen
       /\ vec' = vpush_back(VBegin(vec), x, e)
       /\ lastOp' = OpArgs("vpush_back", <<x>>)
  /\ UNCHANGED <<al, held, state, lists, cross, ref, peak, promise>>

\* x.clear().
VClear ==
  /\ state = "alive"
  /\ \E x \in VecIds :
       /\ vec.v[x].elems # << >>
       /\ vec' = vclear(VBegin(vec), x)
       /\ lastOp' = OpArgs("vclear", <<x>>)
  /\ UNCHANGED <<al, held, state, lists, cross, ref, peak, promise>>

\* x.swap(y).  The allocators of the two vectors are distinct objects that
\* std::vector::swap does not exchange: the standard leaves the call
\* undefined, and a library either exchanges the arrays or, built with its
\* assertions, stops the program.
VSwap ==
  /\ state = "alive"
  /\ \E x \in VecIds :
       /\ lastOp' = OpArgs("vswap", <<x>>)
       /\ \/ /\ vec' = vswap(VBegin(vec), x, 3 - x)
             /\ state' = state
          \/ /\ vec' = ForceBoth(VBegin(vec), x, 3 - x)
             /\ state' = "aborted"
  /\ UNCHANGED <<al, held, lists, cross, ref, peak, promise>>

NextVec == VPushBack \/ VClear \/ VSwap
SpecVec == Init /\ [][NextVec]_vars

\* ------------------------------------------------------------- properties
RECURSIVE SumFree(_, _)
SumFree(A, q) == IF q = << >> THEN 0 ELSE A.freeSlots[Head(q)] + SumFree(A, Tail(q))

Linked(A, slab) == slab \in Range(FreeSlabList(A))
NoDuplicates(q) == \A i, j \in 1..Len(q) : q[i] = q[j] => i = j
CallsOf(A, name) == {i \in 1..Len(A.calls) : A.calls[i].op = name}
\* The allocator without the record of its last operation's mempool calls.
Core(A) == [f \in DOMAIN A \ {"calls"} |-> A[f]]

\* The slots of allocator A that lie on the free chain of one of its slabs.
FreeSlotsOf(A) == UNION {Range(FreeChain(A, s)) : s \in A.slabs}

\* C1: with two lists on separate allocators, after splice, swap and every
\* other list operation each node a list holds occupies a slot of a slab of
\* that list's own allocator, handed out by it (not on a free chain, its
\* back-pointer naming the slab) and shared with no other node; and no node
\* has been given back through the other list's allocator.
C1_NoNodeEscape ==
  /\ ~cross
  /\ \A x \in AllocIds :
       /\ \A i \in 1..Len(lists[x]) :
            LET nd == lists[x][i] IN
              /\ nd.owner = x
              /\ nd.slot \in SlotIds
              /\ nd.slot[1] \in al[x].slabs
              /\ nd.slot[2] < al[x].slabSize[nd.slot[1]]
              /\ al[x].back[nd.slot] = nd.slot[1]
              /\ nd.slot \notin FreeSlotsOf(al[x])
       /\ \A i, j \in 1..Len(lists[x]) : lists[x][i].slot = lists[x][j].slot => i = j

C1_Witness ==
  /\ state = "alive" /\ lastOp.op = "splice"
  /\ lists[1] # << >> /\ lists[2] # << >>
  /\ \E x \in AllocIds : \E i \in 1..Len(lists[x]) : lists[x][i].slot[1] \in HeapIds

\* C2: freeSlotCount is the sum of freeSlots over the slabs linked on the
\* free-slab list, and the list is empty exactly when freeSlotCount is 0.
C2_FreeCountIsListSum ==
  state = "alive" =>
    /\ al[1].freeSlotCount = SumFree(al[1], FreeSlabList(al[1]))
    /\ (FreeSlabList(al[1]) = << >>) <=> (al[1].freeSlotCount = 0)

C2_Witness ==
  /\ state = "alive" /\ lastOp.op = "deallocate"
  /\ Len(FreeSlabList(al[1])) = 2
  /\ HeapSlabs(al[1]) # {}
  /\ \E h \in HeapSlabs(al[1]) : al[1].freeSlots[h] = 0

C4_HeapSlabLinkedIffFree ==
  state = "alive" =>
    \A h \in HeapSlabs(al[1]) : Linked(al[1], h) <=> al[1].freeSlots[h] >= 1

C4_Witness ==
  /\ state = "alive"
  /\ \E h, g \in HeapSlabs(al[1]) :
       /\ al[1].freeSlots[h] = 0 /\ ~Linked(al[1], h)
       /\ al[1].freeSlots[g] >= 1 /\ Linked(al[1], g)

\* C5, as claimed: the inline slab is linked on the free-slab list in every
\* state from construction to destruction, so the list is never empty.
C5_StackSlabAlwaysLinked ==
  state = "alive" => Linked(al[1], STACK) /\ FreeSlabList(al[1]) # << >>

\* C5, amended: the inline slab is linked on the free-slab list exactly when
\* it has a free slot (it is unlinked like a heap slab when its last slot is
\* handed out, and linked again at the head when a slot of it comes back).
C5_StackSlabLinkedIffFree ==
  state = "alive" => (Linked(al[1], STACK) <=> al[1].freeSlots[STACK] >= 1)

C5_Witness ==
  /\ state = "alive"
  /\ al[1].freeSlots[STACK] = 0
  /\ ~Linked(al[1], STACK)
  /\ Cardinality({p \in held : p[1] = STACK}) = StackSize

\* C6: a slab is given back to the mempool only when all its slots are free
\* (none of them held), and the inline slab is never given back: the
\* destructor's notification carries no storage (nullptr).
C6_ReleaseOnlyWhenEmpty ==
  \A i \in CallsOf(al[1], "slab_delete") :
    LET c == al[1].calls[i] IN
      /\ c.slab # STACK
      /\ c.slab # NULL =>
           /\ c.slots = c.size
           /\ \A p \in held : p[1] # c.slab
           /\ c.slab \notin al[1].slabs

C6_Witness ==
  /\ lastOp.op = "deallocate"
  /\ held # {}
  /\ \E i \in CallsOf(al[1], "slab_delete") :
       al[1].calls[i].slab \in HeapIds /\ al[1].calls[i].size >= 2

\* C7, as claimed: whenever no slot is held, no heap slab remains, the
\* counters equal stackSize and the inline slab heads the free-slab list, so
\* that the destructor does not abort.
C7_EmptyMeansPristine ==
  /\ (state = "alive" /\ held = {}) =>
       /\ HeapSlabs(al[1]) = {}
       /\ al[1].freeSlotCount = StackSize
       /\ al[1].allocSlotCount = StackSize
       /\ al[1].next[HEAD] = STACK
  /\ (lastOp.op = "destroy" /\ held = {}) => state = "destroyed"

\* C8, as claimed: destroying the allocator while a slot is held aborts.
C8_DestroyWithLiveAborts ==
  (lastOp.op = "destroy" /\ held # {}) => state = "aborted"

\* C9: reserve(n) with freeSlotCount < n makes one slab_new request, for a
\* heap slab of n - freeSlotCount slots, and leaves freeSlotCount >= n; no
\* reserve adds more than one slab.
C9_Step ==
  lastOp'.op = "reserve" =>
    LET n     == lastOp'.n
        added == HeapSlabs(al'[1]) \ HeapSlabs(al[1])
        news  == CallsOf(al'[1], "slab_new")
    IN /\ Cardinality(added) <= 1
       /\ Cardinality(news) <= 1
       /\ al[1].freeSlotCount < n =>
            /\ Cardinality(added) = 1
            /\ Cardinality(news) = 1
            /\ HeapSlabs(al[1]) \subseteq HeapSlabs(al'[1])
            /\ \A h \in added : al'[1].slabSize[h] = n - al[1].freeSlotCount
            /\ \A i \in news : al'[1].calls[i].slots = n - al[1].freeSlotCount
            /\ al'[1].freeSlotCount >= n

C9_ReserveAddsOneSlab == [][C9_Step]_vars

C9_Witness ==
  /\ state = "alive" /\ lastOp.op = "reserve"
  /\ CallsOf(al[1], "slab_new") # {}
  /\ held # {}
  /\ Cardinality(HeapSlabs(al[1])) = 2

\* C10: reserve(n) with freeSlotCount >= n changes nothing in the
\* allocator and makes no mempool call; so a reserve(n) right after a
\* reserve(n) changes nothing.
C10_Step ==
  /\ (lastOp'.op = "reserve" /\ al[1].freeSlotCount >= lastOp'.n) =>
       /\ Core(al'[1]) = Core(al[1])
       /\ al'[1].calls = << >>
       /\ held' = held
  /\ (lastOp.op = "reserve" /\ lastOp'.op = "reserve" /\ lastOp'.n = lastOp.n) =>
       Core(al'[1]) = Core(al[1])

C10_ReserveNoOp == [][C10_Step]_vars

C10_Witness ==
  /\ state = "alive" /\ lastOp.op = "reserve" /\ lastOp.n >= 1
  /\ al[1].calls = << >>
  /\ al[1].freeSlotCount = lastOp.n
  /\ \E h \in HeapSlabs(al[1]) : al[1].freeSlots[h] = al[1].slabSize[h]

\* C11, as claimed: after reserve(n) made with no slot held, no allocate
\* asks the mempool for a heap slab as long as no more than n slots have
\* been held at once since (promise is then still n).
C11_ReservedNeedsNoSlab ==
  (lastOp.op = "allocate" /\ promise > 0) => CallsOf(al[1], "slab_new") = {}

\* C12, as claimed: in every state between operations the allocated-slot
\* counter is the free-slot counter plus the number of slots held (every
\* addSlab having added its capacity to both counters).
C12_AllocCountIsFreePlusLive ==
  state = "alive" =>
    al[1].allocSlotCount = al[1].freeSlotCount + Cardinality(held)

Unfailed(A) == [Core(A) EXCEPT !.failed = FALSE]

\* C14: allocate(cnt) with cnt # 1 hands out no slot: it aborts on its
\* assertion, and nothing in the allocator has changed by then.
C14_Step ==
  (lastOp'.op = "allocate_cnt" /\ lastOp'.n # 1) =>
    /\ state' = "aborted"
    /\ held' = held
    /\ Unfailed(al'[1]) = Unfailed(al[1])
    /\ al'[1].calls = << >>

C14_AllocateManyAborts == [][C14_Step]_vars

C14_Witness ==
  /\ lastOp.op = "allocate_cnt" /\ lastOp.n = 2
  /\ state = "aborted"
  /\ held # {}
  /\ HeapSlabs(al[1]) # {}

\* C15, as claimed: giving back a slot that is already free is detected and
\* aborts; the slot is not pushed onto a free list again.
C15_DoubleFreeAborts ==
  lastOp.op = "deallocate_free" =>
    /\ state = "aborted"
    /\ \A s \in al[1].slabs : al[1].freeSlots[s] <= al[1].slabSize[s]

\* The allocator apart from the failure on its way to the caller.
Unthrown(A) == [Core(A) EXCEPT !.thrown = FALSE]

\* C16: when slab_new fails during allocate or reserve the failure reaches
\* the caller, no slot is handed out, and the allocator (slabs, free lists,
\* free-slab list, counters) is what it was before the call.
C16_Step ==
  /\ (lastOp'.op \in {"allocate_oom", "reserve_oom"} /\ al'[1].thrown) =>
       /\ Unthrown(al'[1]) = Unthrown(al[1])
       /\ held' = held
       /\ state' = "alive"
  /\ (lastOp'.op = "allocate_oom" /\ NoFreeSlab(al[1])) => al'[1].thrown
  /\ (lastOp'.op = "reserve_oom" /\ al[1].freeSlotCount < lastOp'.n) => al'[1].thrown

C16_OomLeavesStateUnchanged == [][C16_Step]_vars

C16_Witness ==
  /\ state = "alive" /\ lastOp.op = "allocate_oom" /\ al[1].thrown
  /\ held # {}
  /\ HeapSlabs(al[1]) # {}

\* C17, as claimed: after x.swap(y), for any contents of the two lists, x
\* holds what y held and y holds what x held, in order.
C17_Step ==
  lastOp'.op = "swap" =>
    /\ ValuesOf(lists'[1]) = ValuesOf(lists[2])
    /\ ValuesOf(lists'[2]) = ValuesOf(lists[1])

C17_SwapExchanges == [][C17_Step]_vars

\* C18, as claimed: during c.swap(b) with c empty and b holding i elements,
\* the pool's inuse_items never exceeds i.
C18_Step ==
  (lastOp'.op = "swap" /\ lists[lastOp'.args[1]] = << >>) =>
    peak' = Len(lists[Other(lastOp'.args[1])])

C18_SwapNoSpike == [][C18_Step]_vars

\* C19: c.splice(pos, b, first, last) on two distinct lists takes exactly
\* the range [first, last) out of b and puts those values into c before
\* pos, in their order; all other elements of b and c stay in place: the
\* lists hold what std::lists would hold after the same splice.
C19_SpliceAsStdList ==
  lastOp.op = "splice" =>
    /\ \A x \in AllocIds : ValuesOf(lists[x]) = ref[x]
    /\ state = "alive"

C19_Witness ==
  /\ state = "alive" /\ lastOp.op = "splice"
  /\ lastOp.args[1] >= 1
  /\ \E x \in AllocIds :
       /\ Len(lists[x]) = 2
       /\ lists[x][1].val # lists[x][2].val
       /\ lists[x][1].slot[1] # lists[x][2].slot[1]

\* C20: splice(pos, other, it) with it = other.end() changes neither list
\* nor allocator and makes no mempool call; with any other it, it moves the
\* one element at it and nothing else.
C20_Step ==
  lastOp'.op = "splice1" =>
    IF lastOp'.args[1] = 0
    THEN /\ lists' = lists
         /\ \A x \in AllocIds : Core(al'[x]) = Core(al[x]) /\ al'[x].calls = << >>
         /\ peak' = PoolInuse(al)
    ELSE /\ \A x \in AllocIds : ValuesOf(lists'[x]) = ref'[x]
         /\ TotalNodes' = TotalNodes
         /\ \E x \in AllocIds : Len(lists'[x]) = Len(lists[x]) + 1

C20_SpliceOneElement == [][C20_Step]_vars

C20_Witness ==
  /\ state = "alive" /\ lastOp.op = "splice1" /\ lastOp.args[1] = 0
  /\ lists[1] # << >> /\ lists[2] # << >>

\* The slots of allocator A that are handed out.
LiveSlots(A) ==
  {t \in SlotIds : t[1] \in A.slabs /\ t[2] < A.slabSize[t[1]]} \ FreeSlotsOf(A)

\* C21: after dst = src on two distinct lists, whatever dst held, dst holds
\* the values of src in order, src and its allocator are untouched, and
\* dst's allocator has exactly src.size() slots handed out.
C21_Step ==
  lastOp'.op = "assign" =>
    LET dst == lastOp'.args[1]
        src == Other(lastOp'.args[1])
    IN /\ ValuesOf(lists'[dst]) = ValuesOf(lists[src])
       /\ lists'[src] = lists[src]
       /\ Core(al'[src]) = Core(al[src])
       /\ Cardinality(LiveSlots(al'[dst])) = Len(lists[src])
       /\ {lists'[dst][i].slot : i \in 1..Len(lists'[dst])} = LiveSlots(al'[dst])
       /\ state' = "alive"

C21_AssignCopies == [][C21_Step]_vars

C21_Witness ==
  /\ state = "alive" /\ lastOp.op = "assign"
  /\ lastOp.args[2] >= 1
  /\ Len(lists[lastOp.args[1]]) = 2
  /\ lists[lastOp.args[1]][1].val # lists[lastOp.args[1]][2].val

\* C30, as claimed: x = x leaves the elements of x as they were.
C30_SelfAssignKeeps ==
  lastOp.op = "self_assign" => \A x \in AllocIds : ValuesOf(lists[x]) = ref[x]

\* C22, as claimed: allocate(1) followed at once by deallocate of the slot
\* it returned restores freeSlotCount, the set of slabs, the freeSlots of
\* each slab and the membership of the free-slab list.
C22_Step ==
  lastOp'.op = "round_trip" =>
    /\ al'[1].freeSlotCount = al[1].freeSlotCount
    /\ al'[1].slabs = al[1].slabs
    /\ \A s \in al[1].slabs : al'[1].freeSlots[s] = al[1].freeSlots[s]
    /\ Range(FreeSlabList(al'[1])) = Range(FreeSlabList(al[1]))

C22_RoundTripRestores == [][C22_Step]_vars

\* All the slots of the slabs that exist.
AllSlots(A) == {t \in SlotIds : t[1] \in A.slabs /\ t[2] < A.slabSize[t[1]]}

\* C23: when reserve is never called, an allocate asks the mempool for a
\* heap slab only when freeSlotCount is 0 and every slot of every slab is
\* held; so no heap slab is asked for while no more than stackSize slots
\* have been held.
C23_Step ==
  (lastOp'.op = "allocate" /\ CallsOf(al'[1], "slab_new") # {}) =>
    /\ al[1].freeSlotCount = 0
    /\ held = AllSlots(al[1])
    /\ Cardinality(held) >= StackSize
    /\ Cardinality(held') > StackSize

C23_SlabOnlyWhenFull == [][C23_Step]_vars

C23_Witness ==
  /\ state = "alive" /\ lastOp.op = "allocate"
  /\ CallsOf(al[1], "slab_new") # {}
  /\ Cardinality(HeapSlabs(al[1])) = 2

\* The free slots lying in the slabs of the set S.
RECURSIVE FreeIn(_, _)
FreeIn(A, S) ==
  IF S = {} THEN 0
  ELSE LET s == CHOOSE x \in S : TRUE IN A.freeSlots[s] + FreeIn(A, S \ {s})

\* C24: when reserve is never called, every heap slab has a slot that is
\* held, in every state between operations; so the free slots lying in
\* heap slabs are at most (slots held) * (heapSize - 1).
C24_HeapSlabsHoldLive ==
  state = "alive" =>
    /\ \A h \in HeapSlabs(al[1]) :
         /\ al[1].freeSlots[h] < al[1].slabSize[h]
         /\ \E p \in held : p[1] = h
    /\ FreeIn(al[1], HeapSlabs(al[1])) <= Cardinality(held) * (HeapSize - 1)

C24_Witness ==
  /\ state = "alive" /\ lastOp.op = "deallocate"
  /\ Cardinality(HeapSlabs(al[1])) = 2
  /\ \A h \in HeapSlabs(al[1]) : al[1].freeSlots[h] = HeapSize - 1

\* C25: slab_vector_allocator::allocate(cnt) returns the inline array when
\* cnt <= stackSize and otherwise a fresh mempool block of exactly cnt
\* elements; deallocate(p) returns p to the mempool unless p is the
\* allocator's own inline array, in which case nothing changes.
C25_Step ==
  /\ lastOp'.op = "vallocate" =>
       LET x == lastOp'.args[1]  cnt == lastOp'.args[2]  p == lastOp'.args[3] IN
         IF cnt <= VecStackCount
         THEN p = Inline(x) /\ vec' = VBegin(vec)
         ELSE /\ p[1] = "heap"
              /\ vec.blocks[p[2]] = 0
              /\ vec'.blocks = [vec.blocks EXCEPT ![p[2]] = cnt]
              /\ vec'.calls = <<VSlabNew(p, cnt, TRUE)>>
  /\ lastOp'.op = "vdeallocate" =>
       LET x == lastOp'.args[1]  p == lastOp'.args[2] IN
         IF p = Inline(x)
         THEN vec' = VBegin(vec)
         ELSE /\ Len(vec'.calls) = 1
              /\ vec'.calls[1].op = "slab_delete"
              /\ vec'.calls[1].p = p
              /\ p[1] = "heap" =>
                    /\ vec'.calls[1].slots = vec.blocks[p[2]]
                    /\ vec'.blocks = [vec.blocks EXCEPT ![p[2]] = 0]
C25_VectorAllocatorInlineOrHeap == [][C25_Step]_vars
C25_Witness ==
  /\ lastOp.op = "vdeallocate"
  /\ lastOp.args[2][1] = "heap"
  /\ vec.blocks[lastOp.args[2][2]] = 0
  /\ \E b \in BlockIds : vec.blocks[b] > VecStackCount

\* C26: a default-constructed slab_vector has its buffer wired to the inline
\* array with capacity stackCount, and as long as its size has never
\* exceeded stackCount (push_back and clear only) its allocator has made no
\* heap request and the buffer stays the inline array.
C26_InlineWhileSmall ==
  \A x \in VecIds :
    vec.plain[x] =>
      /\ vec.v[x].buf = Inline(x)
      /\ vec.v[x].cap = VecStackCount
      /\ ~vec.asked[x]
      /\ (lastOp.op \in {"vpush_back", "vclear"} /\ lastOp.args[1] = x) => vec.calls = << >>
C26_Witness ==
  \E x \in VecIds :
    /\ vec.plain[x]
    /\ lastOp.op = "vpush_back"
    /\ lastOp.args[1] = x
    /\ Len(vec.v[x].elems) = VecStackCount
    /\ vec.asked[3 - x]

\* C27: after x.swap(y) that returns, the contents of the two vectors are
\* exchanged and neither buffer is an inline array: both are mempool
\* blocks of capacity at least stackCount + 1.
C27_Step ==
  (lastOp'.op = "vswap" /\ state' = "alive") =>
    LET x == lastOp'.args[1]  y == 3 - lastOp'.args[1] IN
      /\ vec'.v[x].elems = vec.v[y].elems
      /\ vec'.v[y].elems = vec.v[x].elems
      /\ \A z \in VecIds :
           /\ vec'.v[z].buf[1] = "heap"
           /\ vec'.v[z].cap >= VecStackCount + 1
           /\ vec'.blocks[vec'.v[z].buf[2]] = vec'.v[z].cap
      /\ vec'.v[x].buf # vec'.v[y].buf
      /\ ~vec'.wild
C27_SwapForcesOffInline == [][C27_Step]_vars
C27_Witness ==
  /\ lastOp.op = "vswap"
  /\ state = "alive"
  /\ Len(vec.v[1].elems) > VecStackCount
  /\ vec.v[2].elems # << >>
  /\ Len(vec.v[2].elems) < VecStackCount
  /\ Len(vec.calls) = 1

C29_Step ==
  (lastOp'.op = "allocate" /\ state' = "alive") =>
    /\ Cardinality(held') = Cardinality(held) + 1
    /\ held \subseteq held'
    /\ \A s \in held' \ held : s \in SlotIds /\ al'[1].storage0[s] = Object
C29_AllocateReturnsFreshSlot == [][C29_Step]_vars
C29_Witness ==
  /\ lastOp.op = "allocate"
  /\ state = "alive"
  /\ Cardinality(held) >= 3
  /\ al[1].freeSlotCount > 0
  /\ \E s \in held : s[1] # STACK

\* C31: slab_list::swap terminates for every argument, x.swap(x) on a
\* non-empty list included, and a self-swap leaves the contents of x as
\* they were.
C31_SelfSwapTerminates ==
  (state = "swapping") ~>
    (/\ lastOp.op = "self_swap_return"
     /\ state = "alive"
     /\ ValuesOf(lists[lastOp.args[1]]) = ref[lastOp.args[1]])

\* C32: over any sequence of allocate and deallocate calls on a
\* slab_vector_allocator, the pointer allocate returns is none of those
\* returned earlier and not yet deallocated.
C32_Step == lastOp'.op = "vallocate" => lastOp'.args[3] \notin held
C32_VectorAllocateReturnsFreshBuffer == [][C32_Step]_vars

====
